---- MODULE Spec2Model ----
(***************************************************************************)
(* A model of ChromaDBService (src/src/services/chroma_db.py): the token   *)
(* window chunker, the batched add pipeline, the ingestion entry points    *)
(* and the service's construction, over a small stand-in tokenizer.        *)
(***************************************************************************)
EXTENDS Integers, Sequences, FiniteSets, TLC

VARIABLES chunk_size, overlap, dirExists, store, svc, nextId, lastOp, calls, result

vars == <<chunk_size, overlap, dirExists, store, svc, nextId, lastOp, calls, result>>

(***************************************************************************)
(* Bounds of the model.                                                    *)
(***************************************************************************)
\* longest document text, in characters
MaxTextLen == 5
\* largest configured db_chunk_size
MaxChunk == 3
\* largest configured db_chunk_overlap
MaxOverlap == 3

(***************************************************************************)
(* Arithmetic helpers.                                                     *)
(***************************************************************************)
Min(a, b) == IF a <= b THEN a ELSE b

Max(a, b) == IF a >= b THEN a ELSE b

\* ceil(a / b) for b > 0 and any integer a
CeilDiv(a, b) == -((-a) \div b)

(***************************************************************************)
(* Python values.  A text is a sequence of characters; None (as a          *)
(* document) is a one-element sequence no text equals.  Inside a token     *)
(* tuple None (zip_longest's fill value) is 0; tokens are 1..3.            *)
(***************************************************************************)
Alphabet == {"a", "b"}

None == <<"None">>

NoneTok == 0

RECURSIVE SeqsUpTo(_, _)
SeqsUpTo(S, n) ==
    IF n = 0 THEN {<<>>}
    ELSE LET shorter == SeqsUpTo(S, n - 1)
         IN  shorter \cup {Append(s, x) : s \in {t \in shorter : Len(t) = n - 1}, x \in S}

Texts == SeqsUpTo(Alphabet, MaxTextLen)

(***************************************************************************)
(* The tokenizer (tiktoken behind self.encode / self.decode): a stand-in   *)
(* byte-pair vocabulary  1 = "a", 2 = "b", 3 = "ab"  with greedy longest   *)
(* match, so that encode merges characters and decode(t) re-encodes to a   *)
(* different token sequence in general.                                   *)
(***************************************************************************)
RECURSIVE encodeFrom(_, _)
encodeFrom(text, p) ==
    IF p > Len(text) THEN <<>>
    ELSE IF p < Len(text) /\ text[p] = "a" /\ text[p + 1] = "b"
         THEN <<3>> \o encodeFrom(text, p + 2)
         ELSE <<(IF text[p] = "a" THEN 1 ELSE 2)>> \o encodeFrom(text, p + 1)

encode(text) == encodeFrom(text, 1)

tokenText(t) == IF t = 1 THEN <<"a">> ELSE IF t = 2 THEN <<"b">> ELSE <<"a", "b">>

RECURSIVE decode(_)
decode(x) == IF x = <<>> THEN <<>> ELSE tokenText(Head(x)) \o decode(Tail(x))

\* decode raises TypeError on a tuple that holds None
decodable(x) == \A j \in 1..Len(x) : x[j] # NoneTok

(***************************************************************************)
(* get_chunks_and_metadatas: document[i::step], zip_longest, the filter    *)
(* of the fill value, decode.                                              *)
(***************************************************************************)
\* document[i::step] for step # 0 (i is 0-based, as in the source)
SliceFrom(document, i, step) ==
    LET L == Len(document) IN
    IF step > 0
    THEN LET n == IF i >= L THEN 0 ELSE CeilDiv(L - i, step)
         IN  [k \in 1..n |-> document[i + (k - 1) * step + 1]]
    ELSE LET start == Min(i, L - 1)
             n == IF start < 0 THEN 0 ELSE (start \div (-step)) + 1
         IN  [k \in 1..n |-> document[start + (k - 1) * step + 1]]

\* itertools.zip_longest(*cols): one tuple per index of the longest column
RECURSIVE MaxLen(_)
MaxLen(cols) == IF cols = <<>> THEN 0 ELSE Max(Len(Head(cols)), MaxLen(Tail(cols)))

itzip(cols) ==
    [k \in 1..MaxLen(cols) |->
        [i \in 1..Len(cols) |-> IF k <= Len(cols[i]) THEN cols[i][k] ELSE NoneTok]]

NotNoneTok(t) == t # NoneTok

\* YieldChunks with zip in place of zip_longest: the tuples that would hold a fill
\* value (the trailing partial windows) are not produced
YieldChunks_zip(document, C, O) ==
    LET cols == [i \in 1..C |-> SliceFrom(document, i - 1, C - O)]
        zipped == itzip(cols)
    IN  SelectSeq(zipped, decodable)

\* YieldChunks with the stride taken as chunk_size + overlap
YieldChunks_StridePlus(document, C, O) ==
    LET cols == [i \in 1..C |-> SliceFrom(document, i - 1, C + O)]
        zipped == itzip(cols)
    IN  [k \in 1..Len(zipped) |->
            IF zipped[k][Len(zipped[k])] = NoneTok
            THEN SelectSeq(zipped[k], NotNoneTok)
            ELSE zipped[k]]

\* the tuples _yield_chunks yields, in order (chunk_size - overlap # 0)
YieldChunks(document, C, O) ==
    LET cols == [i \in 1..C |-> SliceFrom(document, i - 1, C - O)]
        zipped == itzip(cols)
    IN  [k \in 1..Len(zipped) |->
            IF zipped[k][Len(zipped[k])] = NoneTok
            THEN SelectSeq(zipped[k], NotNoneTok)
            ELSE zipped[k]]

\* a file_json dict: the keys it has and their values
FileJson(hasDoc, doc, hasMd, md) ==
    [hasDocument |-> hasDoc, document |-> doc, hasMetadata |-> hasMd, metadata |-> md]

Raised(e) == [ok |-> FALSE, error |-> e, chunks |-> <<>>, metadatas |-> <<>>]

GetChunksAndMetadatas(file_json, C, O) ==
    IF ~file_json.hasDocument THEN Raised("KeyError")
    ELSE IF file_json.document = None THEN Raised("TypeError")
    ELSE IF C - O = 0 THEN Raised("ValueError")
    ELSE LET windows == YieldChunks(encode(file_json.document), C, O) IN
         IF \E k \in 1..Len(windows) : ~decodable(windows[k]) THEN Raised("TypeError")
         ELSE IF ~file_json.hasMetadata THEN Raised("KeyError")
         ELSE [ok |-> TRUE, error |-> "",
               chunks |-> [k \in 1..Len(windows) |-> decode(windows[k])],
               metadatas |-> [k \in 1..Len(windows) |-> file_json.metadata]]

(***************************************************************************)
(* The backing store: one persisted collection of items, each an id, a     *)
(* document and its metadata, in insertion order.                          *)
(***************************************************************************)
\* _BATCH_SIZE (200 in the source), scaled down
BATCH_SIZE == 2

Item(id, document, metadata) == [id |-> id, document |-> document, metadata |-> metadata]

Range(f) == {f[j] : j \in DOMAIN f}

StoredIds(st) == {it.id : it \in Range(st.items)}

\* one insert call: the three lists handed to collection.add
InsertCall(documents, metadatas, ids) ==
    [documents |-> documents, metadatas |-> metadatas, ids |-> ids]

\* what collection.add raises for a call ("" when it accepts it): the store validates
\* the lists, and the embedding function rejects blank input
CollectionAddError(call, st) ==
    IF ~st.exists THEN "NotFoundError"
    ELSE IF Len(call.ids) = 0 THEN "ValueError"
    ELSE IF Len(call.documents) # Len(call.ids) \/ Len(call.metadatas) # Len(call.ids)
         THEN "ValueError"
    ELSE IF \E i, j \in 1..Len(call.ids) : i # j /\ call.ids[i] = call.ids[j]
         THEN "DuplicateIDError"
    ELSE IF \E j \in 1..Len(call.documents) : call.documents[j] \in {<<>>, None}
         THEN "APIStatusError"
    ELSE ""

\* the collection after an accepted call: the items are appended in order, an id the
\* collection already holds is left as it is
RECURSIVE CollectionAddFrom(_, _, _)
CollectionAddFrom(call, j, st) ==
    IF j > Len(call.ids) THEN st
    ELSE IF call.ids[j] \in StoredIds(st) THEN CollectionAddFrom(call, j + 1, st)
    ELSE CollectionAddFrom(call, j + 1,
            [st EXCEPT !.items =
                Append(@, Item(call.ids[j], call.documents[j], call.metadatas[j]))])

CollectionAdd(call, st) == CollectionAddFrom(call, 1, st)

(***************************************************************************)
(* add_documents.                                                          *)
(***************************************************************************)
\* str(uuid.uuid4()) for each document: fresh ids, drawn from a counter
Uuids(n, nid) == [j \in 1..n |-> <<"uuid", nid + j>>]

\* batched that yields only the full batches
batched_DropPartial(list, B) ==
    [b \in 1..(Len(list) \div B) |-> SubSeq(list, (b - 1) * B + 1, b * B)]

\* itertools.batched(list, B)
batched(list, B) ==
    [b \in 1..CeilDiv(Len(list), B) |->
        SubSeq(list, (b - 1) * B + 1, Min(b * B, Len(list)))]

\* zip(_docs, _mds, _ids): as many triples as the shortest of the three
zip(docs, mds, ids) ==
    [b \in 1..Min(Len(docs), Min(Len(mds), Len(ids))) |->
        InsertCall(docs[b], mds[b], ids[b])]

Issued(call, ok) ==
    [documents |-> call.documents, metadatas |-> call.metadatas, ids |-> call.ids,
     ok |-> ok]

\* AddLoop with the store's error swallowed: the loop goes on to the next batch
RECURSIVE AddLoop_ContinueOnError(_, _, _, _, _)
AddLoop_ContinueOnError(batches, b, failAt, st, issued) ==
    IF b > Len(batches) THEN [calls |-> issued, store |-> st, error |-> ""]
    ELSE LET err == IF b = failAt THEN "BackendError"
                    ELSE CollectionAddError(batches[b], st)
         IN  IF err # ""
             THEN AddLoop_ContinueOnError(batches, b + 1, failAt, st,
                                          Append(issued, Issued(batches[b], FALSE)))
             ELSE AddLoop_ContinueOnError(batches, b + 1, failAt,
                                          CollectionAdd(batches[b], st),
                                          Append(issued, Issued(batches[b], TRUE)))

\* AddLoop that undoes a failed batch by deleting the ids it carried
RECURSIVE AddLoop_RollbackIds(_, _, _, _, _)
AddLoop_RollbackIds(batches, b, failAt, st, issued) ==
    IF b > Len(batches) THEN [calls |-> issued, store |-> st, error |-> ""]
    ELSE LET err == IF b = failAt THEN "BackendError"
                    ELSE CollectionAddError(batches[b], st)
             kept(item) == item.id \notin Range(batches[b].ids)
         IN  IF err # ""
             THEN [calls |-> Append(issued, Issued(batches[b], FALSE)),
                   store |-> [st EXCEPT !.items = SelectSeq(@, kept)], error |-> err]
             ELSE AddLoop_RollbackIds(batches, b + 1, failAt,
                                      CollectionAdd(batches[b], st),
                                      Append(issued, Issued(batches[b], TRUE)))

\* the for loop of add_documents from batch b on: one collection.add per batch, in
\* order; the first call that raises ends the loop.  failAt is the call at which the
\* backend fails of its own (network, quota), 0 for none.
RECURSIVE AddLoop(_, _, _, _, _)
AddLoop(batches, b, failAt, st, issued) ==
    IF b > Len(batches) THEN [calls |-> issued, store |-> st, error |-> ""]
    ELSE LET err == IF b = failAt THEN "BackendError"
                    ELSE CollectionAddError(batches[b], st)
         IN  IF err # ""
             THEN [calls |-> Append(issued, Issued(batches[b], FALSE)),
                   store |-> st, error |-> err]
             ELSE AddLoop(batches, b + 1, failAt, CollectionAdd(batches[b], st),
                          Append(issued, Issued(batches[b], TRUE)))

Returned(ids) == [ok |-> TRUE, error |-> "", ids |-> ids]

RaisedBy(e) == [ok |-> FALSE, error |-> e, ids |-> <<>>]

\* the batches add_documents loops over, the defaults filled in
AddBatches(documents, mdNone, metadatas, idsNone, ids, nid) ==
    LET ids1 == IF idsNone THEN Uuids(Len(documents), nid) ELSE ids
        mds1 == IF mdNone THEN [j \in 1..Len(documents) |-> {}] ELSE metadatas
    IN  zip(batched(documents, BATCH_SIZE), batched(mds1, BATCH_SIZE),
            batched(ids1, BATCH_SIZE))

\* add_documents without its assertion
AddDocuments_NoAssert(documents, mdNone, metadatas, idsNone, ids, failAt, st, nid) ==
    LET ids1 == IF idsNone THEN Uuids(Len(documents), nid) ELSE ids
        nid1 == IF idsNone THEN nid + Len(documents) ELSE nid
        run == AddLoop(AddBatches(documents, mdNone, metadatas, idsNone, ids, nid),
                       1, failAt, st, <<>>)
    IN  [calls |-> run.calls, store |-> run.store, nextId |-> nid1,
         result |-> IF run.error = "" THEN Returned(ids1) ELSE RaisedBy(run.error)]

\* add_documents(documents, metadatas, ids) on store st: the calls it issues, the
\* store it leaves, what it returns or raises
AddDocuments(documents, mdNone, metadatas, idsNone, ids, failAt, st, nid) ==
    LET ids1 == IF idsNone THEN Uuids(Len(documents), nid) ELSE ids
        nid1 == IF idsNone THEN nid + Len(documents) ELSE nid
    IN  IF \E j \in 1..Len(documents) : documents[j] = None
        THEN [calls |-> <<>>, store |-> st, nextId |-> nid1,
              result |-> RaisedBy("AssertionError")]
        ELSE LET run == AddLoop(AddBatches(documents, mdNone, metadatas, idsNone, ids,
                                           nid), 1, failAt, st, <<>>)
             IN  [calls |-> run.calls, store |-> run.store, nextId |-> nid1,
                  result |-> IF run.error = "" THEN Returned(ids1)
                             ELSE RaisedBy(run.error)]

(***************************************************************************)
(* The chunker as a pure function: Init draws a configuration and a        *)
(* file_json, ChunkerCall applies get_chunks_and_metadatas to it.          *)
(***************************************************************************)
Metadata(n) == {<<"source", ToString(n)>>}

FileJsons ==
    {FileJson(TRUE, d, hm, Metadata(1)) : d \in Texts \cup {None}, hm \in BOOLEAN}
        \cup {FileJson(FALSE, <<>>, TRUE, Metadata(1))}

NoStore == [exists |-> FALSE, items |-> <<>>, others |-> {}]

NoResult == [ok |-> TRUE, error |-> "", chunks |-> <<>>, metadatas |-> <<>>]

ChunkerInit ==
    /\ chunk_size \in 1..MaxChunk
    /\ overlap \in 0..MaxOverlap
    /\ dirExists = TRUE
    /\ store = [exists |-> TRUE, items |-> <<>>, others |-> {}]
    /\ svc = "ATTACHED"
    /\ nextId = 0
    /\ \E d \in FileJsons : lastOp = [op |-> "pending", file_json |-> d]
    /\ calls = <<>>
    /\ result = NoResult

ChunkerCall ==
    /\ lastOp.op = "pending"
    /\ lastOp' = [op |-> "get_chunks_and_metadatas", file_json |-> lastOp.file_json]
    /\ result' = GetChunksAndMetadatas(lastOp.file_json, chunk_size, overlap)
    /\ UNCHANGED <<chunk_size, overlap, dirExists, store, svc, nextId, calls>>

ChunkerNext == ChunkerCall

SpecChunker == ChunkerInit /\ [][ChunkerNext]_vars

\* the call the chunker claims are about: a valid configuration, a document that chunked
Chunked ==
    /\ lastOp.op = "get_chunks_and_metadatas"
    /\ 0 <= overlap /\ overlap < chunk_size
    /\ result.ok

TokenLen == Len(encode(lastOp.file_json.document))

Windows == YieldChunks(encode(lastOp.file_json.document), chunk_size, overlap)

(***************************************************************************)
(* One call of add_documents on an attached service whose collection holds *)
(* what earlier calls left: the arguments are drawn from parallel lists    *)
(* whose lengths may differ, with at most one null or empty document, and  *)
(* the backend may fail at any one insert call.                            *)
(***************************************************************************)
\* longest documents list: three batches
MaxDocs == 2 * BATCH_SIZE + 1

\* the j-th document of a list: j characters, so that positions differ
DocText(j) == [k \in 1..j |-> "a"]

DocList(n) == [j \in 1..n |-> DocText(j)]

\* the lists of up to n documents, at most one of them null or empty
DocListsUpTo(n) ==
    {DocList(i) : i \in 0..n}
        \cup UNION {{[DocList(i) EXCEPT ![p] = d] : p \in 1..i, d \in {None, <<>>}} :
                        i \in 1..n}

DocLists == DocListsUpTo(MaxDocs)

MdList(m) == [j \in 1..m |-> Metadata(j)]

IdList(k) == [j \in 1..k |-> <<"id", j>>]

OldItem == Item(<<"uuid", 0>>, <<"b">>, Metadata(0))

\* the caller is between two calls: nothing is being observed
Idle == lastOp.op = "none"

Commit(op, run) ==
    /\ lastOp' = op
    /\ calls' = run.calls
    /\ store' = run.store
    /\ nextId' = run.nextId
    /\ result' = run.result
    /\ UNCHANGED <<chunk_size, overlap, dirExists, svc>>

AddDocumentsOp(documents, mdNone, metadatas, idsNone, ids) ==
    [op |-> "add_documents", documents |-> documents, mdNone |-> mdNone,
     metadatas |-> metadatas, idsNone |-> idsNone, ids |-> ids]

\* a call of add_documents with metadatas of length m (or None) and ids of length k
\* (or None)
AddDocumentsCall(documents, mdNone, m, idsNone, k, failAt) ==
    /\ svc # "UNATTACHED"
    /\ \E run \in {AddDocuments(documents, mdNone, MdList(m), idsNone, IdList(k), failAt,
                                store, nextId)} :
        Commit(AddDocumentsOp(documents, mdNone, MdList(m), idsNone, IdList(k)), run)

AddInit ==
    /\ chunk_size = MaxChunk
    /\ overlap = 0
    /\ dirExists = TRUE
    /\ store \in {[exists |-> TRUE, items |-> <<>>, others |-> {}],
                  [exists |-> TRUE, items |-> <<OldItem>>, others |-> {}],
                  [exists |-> TRUE, others |-> {},
                   items |-> <<OldItem, Item(<<"id", 1>>, <<"b">>, {})>>]}
    /\ svc = "ATTACHED"
    /\ nextId = 0
    /\ lastOp = [op |-> "none"]
    /\ calls = <<>>
    /\ result = NoResult

AddNext ==
    /\ Idle
    /\ \E documents \in DocLists, mdNone \in BOOLEAN, idsNone \in BOOLEAN :
        \E m \in (IF mdNone THEN {0} ELSE 0..MaxDocs),
           k \in (IF idsNone THEN {0} ELSE 0..MaxDocs),
           failAt \in 0..CeilDiv(MaxDocs, BATCH_SIZE) :
            AddDocumentsCall(documents, mdNone, m, idsNone, k, failAt)

SpecAdd == AddInit /\ [][AddNext]_vars

(***************************************************************************)
(* initialize_db and add_search_results.                                   *)
(***************************************************************************)
NoChunks == [ok |-> TRUE, error |-> "", chunks |-> <<>>, metadatas |-> <<>>]

\* ChunkFiles with the failing record skipped instead of raised
RECURSIVE ChunkFiles_SkipFailed(_, _, _, _, _)
ChunkFiles_SkipFailed(data, i, C, O, acc) ==
    IF i > Len(data) THEN acc
    ELSE LET r == GetChunksAndMetadatas(data[i], C, O)
         IN  IF ~r.ok THEN ChunkFiles_SkipFailed(data, i + 1, C, O, acc)
             ELSE ChunkFiles_SkipFailed(data, i + 1, C, O,
                    [acc EXCEPT !.chunks = @ \o r.chunks,
                                !.metadatas = @ \o r.metadatas])

\* the loop of initialize_db over the records read, from record i on: a record whose
\* chunking raises ends it with an Exception naming d['metadata'] (a KeyError when the
\* record has none)
RECURSIVE ChunkFiles(_, _, _, _, _)
ChunkFiles(data, i, C, O, acc) ==
    IF i > Len(data) THEN acc
    ELSE LET r == GetChunksAndMetadatas(data[i], C, O)
         IN  IF ~r.ok
             THEN Raised(IF data[i].hasMetadata THEN "Exception" ELSE "KeyError")
             ELSE ChunkFiles(data, i + 1, C, O,
                    [acc EXCEPT !.chunks = @ \o r.chunks,
                                !.metadatas = @ \o r.metadatas])

NoCalls(st, nid, e) ==
    [calls |-> <<>>, store |-> st, nextId |-> nid, result |-> RaisedBy(e)]

\* initialize_db over the records of config.data_files (readable: every file opened and
\* parsed as JSON)
InitializeDb(data, readable, failAt, C, O, st, nid) ==
    IF ~readable THEN NoCalls(st, nid, "JSONDecodeError")
    ELSE LET ch == ChunkFiles(data, 1, C, O, NoChunks)
         IN  IF ~ch.ok THEN NoCalls(st, nid, ch.error)
             ELSE AddDocuments(ch.chunks, FALSE, ch.metadatas, TRUE, <<>>, failAt, st, nid)

\* a SearchResultItem; an absent title or content is NoneStr / None
NoneStr == "<None>"

SearchResultItem(url, title, content) ==
    [url |-> url, title |-> title, content |-> content]

HasContent(sr) == sr.content # None

\* SearchDocs without the filter on content
SearchDocs_NoFilter(search_results) ==
    [j \in 1..Len(search_results) |->
        FileJson(TRUE, search_results[j].content, TRUE,
                 {<<"title", IF search_results[j].title \in {NoneStr, ""} THEN ""
                             ELSE search_results[j].title>>,
                  <<"url", search_results[j].url>>})]

\* the docs add_search_results builds from the items with content
SearchDocs(search_results) ==
    LET non_null == SelectSeq(search_results, HasContent)
    IN  [j \in 1..Len(non_null) |->
            FileJson(TRUE, non_null[j].content, TRUE,
                     {<<"title", IF non_null[j].title \in {NoneStr, ""} THEN ""
                                 ELSE non_null[j].title>>,
                      <<"url", non_null[j].url>>})]

\* the loop of add_search_results over docs: what the chunker raises propagates
RECURSIVE ChunkDocs(_, _, _, _, _)
ChunkDocs(docs, i, C, O, acc) ==
    IF i > Len(docs) THEN acc
    ELSE LET r == GetChunksAndMetadatas(docs[i], C, O)
         IN  IF ~r.ok THEN Raised(r.error)
             ELSE ChunkDocs(docs, i + 1, C, O,
                    [acc EXCEPT !.chunks = @ \o r.chunks,
                                !.metadatas = @ \o r.metadatas])

AddSearchResults(search_results, failAt, C, O, st, nid) ==
    LET docs == SearchDocs(search_results)
    IN  IF Len(docs) = 0 THEN NoCalls(st, nid, "AssertionError")
        ELSE LET ch == ChunkDocs(docs, 1, C, O, NoChunks)
             IN  IF ~ch.ok THEN NoCalls(st, nid, ch.error)
                 ELSE AddDocuments(ch.chunks, FALSE, ch.metadatas, TRUE, <<>>, failAt,
                                   st, nid)

(***************************************************************************)
(* The service over its life: constructed on a persist directory that may  *)
(* hold an earlier run's collection, then used.                            *)
(***************************************************************************)
\* longest text of a data file or of a search result
MaxIngestLen == 2
\* most records read by initialize_db, most items of a search
MaxRecords == 2
\* most items the collection is grown to, and most ids uuid4 is asked for
MaxStore == 2
\* the chunk_size the service is configured with, and its largest overlap
MaxConfig == 2

MaxIds == MaxStore

\* the texts ingested: the empty one and one of MaxIngestLen characters
IngestTexts == {<<>>, DocText(MaxIngestLen)}

\* the records a data file may hold as the j-th of the list
Records(j) ==
    {FileJson(TRUE, t, TRUE, Metadata(j)) : t \in IngestTexts \cup {None}}
        \cup {FileJson(FALSE, <<>>, TRUE, Metadata(j)),
              FileJson(TRUE, DocText(MaxIngestLen), FALSE, {})}

\* the caller drops what the last call returned and goes on
Forget ==
    /\ ~Idle
    /\ lastOp' = [op |-> "none"]
    /\ calls' = <<>>
    /\ result' = NoResult
    /\ UNCHANGED <<chunk_size, overlap, dirExists, store, svc, nextId>>

\* n well-formed records
RecordList(n) ==
    [j \in 1..n |-> FileJson(TRUE, DocText(MaxIngestLen), TRUE, Metadata(j))]

\* the lists of up to n records, at most one of them other than well-formed
RecordLists(n) ==
    {RecordList(i) : i \in 0..n}
        \cup UNION {UNION {{[RecordList(i) EXCEPT ![p] = x] : x \in Records(p)} :
                                p \in 1..i} : i \in 1..n}

\* the items a search may return as its j-th: with or without content, with or
\* without a title
SearchItems(j) ==
    {SearchResultItem(ToString(j), "t", c) : c \in IngestTexts \cup {None}}
        \cup {SearchResultItem(ToString(j), NoneStr, DocText(MaxIngestLen))}

\* n search results with a title and content
SearchList(n) ==
    [j \in 1..n |-> SearchResultItem(ToString(j), "t", DocText(MaxIngestLen))]

\* the lists of up to n search results, at most one of them lacking something
SearchLists(n) ==
    {SearchList(i) : i \in 0..n}
        \cup UNION {UNION {{[SearchList(i) EXCEPT ![p] = x] : x \in SearchItems(p)} :
                                p \in 1..i} : i \in 1..n}

\* the constructor without the rmtree of the persist directory
Construct_NoWipe(recreate) ==
    /\ Idle
    /\ svc' = "ATTACHED"
    /\ dirExists' = TRUE
    /\ store' = [exists |-> TRUE, items |-> store.items, others |-> store.others]
    /\ lastOp' = [op |-> "__init__", recreate |-> recreate]
    /\ calls' = <<>>
    /\ result' = NoResult
    /\ UNCHANGED <<chunk_size, overlap, nextId>>

\* ChromaDBService(config, recreate_collection)
Construct(recreate) ==
    /\ Idle
    /\ svc' = "ATTACHED"
    /\ dirExists' = TRUE
    /\ store' = IF recreate /\ dirExists
                THEN [exists |-> TRUE, items |-> <<>>, others |-> {}]
                ELSE [exists |-> TRUE, items |-> store.items, others |-> store.others]
    /\ lastOp' = [op |-> "__init__", recreate |-> recreate]
    /\ calls' = <<>>
    /\ result' = NoResult
    /\ UNCHANGED <<chunk_size, overlap, nextId>>

\* the call leaves the collection and the ids drawn within the bounds
Fits(run) == Len(run.store.items) <= MaxStore /\ run.nextId <= MaxIds

InitializeDbCall(data, readable, failAt) ==
    /\ Idle
    /\ svc = "ATTACHED"
    /\ \E run \in {InitializeDb(data, readable, failAt, chunk_size, overlap, store,
                                nextId)} :
        /\ Fits(run)
        /\ Commit([op |-> "initialize_db", data |-> data, readable |-> readable], run)

AddSearchResultsCall(search_results, failAt) ==
    /\ Idle
    /\ svc = "ATTACHED"
    /\ \E run \in {AddSearchResults(search_results, failAt, chunk_size, overlap, store,
                                    nextId)} :
        /\ Fits(run)
        /\ Commit([op |-> "add_search_results", search_results |-> search_results], run)

\* add_documents with parallel lists of one length
AddDocumentsAligned(documents, mdNone, idsNone, failAt) ==
    /\ Idle
    /\ AddDocumentsCall(documents, mdNone, IF mdNone THEN 0 ELSE Len(documents),
                        idsNone, IF idsNone THEN 0 ELSE Len(documents), failAt)
    /\ Len(store'.items) <= MaxStore
    /\ nextId' <= MaxIds

Init ==
    /\ chunk_size = MaxConfig
    /\ overlap \in 0..MaxConfig
    /\ dirExists \in BOOLEAN
    /\ store \in IF dirExists
                 THEN {[exists |-> TRUE, items |-> <<>>, others |-> {}],
                       [exists |-> TRUE, items |-> <<OldItem>>, others |-> {}]}
                 ELSE {NoStore}
    /\ svc = "UNATTACHED"
    /\ nextId = 0
    /\ lastOp = [op |-> "none"]
    /\ calls = <<>>
    /\ result = NoResult

MaxBatches == CeilDiv(MaxStore, BATCH_SIZE)

Next ==
    \/ \E recreate \in BOOLEAN : Construct(recreate)
    \/ \E data \in RecordLists(MaxRecords), failAt \in 0..MaxBatches :
            InitializeDbCall(data, TRUE, failAt)
    \/ InitializeDbCall(<<>>, FALSE, 0)
    \/ \E search_results \in SearchLists(MaxRecords), failAt \in 0..MaxBatches :
            AddSearchResultsCall(search_results, failAt)
    \/ \E documents \in DocListsUpTo(MaxStore), mdNone \in BOOLEAN,
          idsNone \in BOOLEAN, failAt \in 0..MaxBatches :
            AddDocumentsAligned(documents, mdNone, idsNone, failAt)
    \/ Forget

Spec == Init /\ [][Next]_vars

(***************************************************************************)
(* The store's read, delete and drop operations, and the service methods   *)
(* over them.  The backend is taken to be reachable: these calls fail only *)
(* for what they are asked.                                                *)
(***************************************************************************)
\* config.data_config.db_name, and the name of a collection an earlier run under
\* another configuration may have left in the persist directory
CollectionName == "ravana"

OtherName == "other"

Counted(n) == [ok |-> TRUE, error |-> "", count |-> n]

NotCounted(e) == [ok |-> FALSE, error |-> e, count |-> 0]

\* get_count(): collection.count()
GetCount(st) ==
    IF st.exists THEN Counted(Len(st.items)) ELSE NotCounted("NotFoundError")

\* the distance of two texts under the stand-in embedding: the positions at which
\* they differ
Distance(q, d) ==
    Cardinality({k \in 1..Max(Len(q), Len(d)) :
                    k > Len(q) \/ k > Len(d) \/ q[k] # d[k]})

\* the where filter: every key of it is in the item's metadata with that value
Matches(whereNone, where, item) == whereNone \/ where \subseteq item.metadata

Chunk(item, distance) ==
    [id |-> item.id, text |-> item.document, metadata |-> item.metadata,
     distance |-> distance]

\* the k nearest of the candidates, nearest first, earlier insertion first on a tie
RECURSIVE Nearest(_, _, _)
Nearest(q, cands, k) ==
    IF k <= 0 \/ cands = <<>> THEN <<>>
    ELSE LET best == CHOOSE i \in 1..Len(cands) :
                        \A j \in 1..Len(cands) :
                            \/ Distance(q, cands[i].document)
                                    < Distance(q, cands[j].document)
                            \/ /\ Distance(q, cands[i].document)
                                    = Distance(q, cands[j].document)
                               /\ i <= j
             rest == [j \in 1..(Len(cands) - 1) |->
                        IF j < best THEN cands[j] ELSE cands[j + 1]]
         IN  <<Chunk(cands[best], Distance(q, cands[best].document))>>
                \o Nearest(q, rest, k - 1)

QueryResult(results) == [ok |-> TRUE, error |-> "", results |-> results]

NoQueryResult(e) == [ok |-> FALSE, error |-> e, results |-> <<>>]

\* collection.query(query_texts=[q], n_results=n, where=where): the arguments are
\* validated, the text is embedded, the nearest matching items are returned
CollectionQuery(q, n, whereNone, where, st) ==
    IF ~st.exists THEN NoQueryResult("NotFoundError")
    ELSE IF n <= 0 THEN NoQueryResult("ValueError")
    ELSE IF q = <<>> THEN NoQueryResult("APIStatusError")
    ELSE LET matching(item) == Matches(whereNone, where, item)
         IN  QueryResult(Nearest(q, SelectSeq(st.items, matching), n))

\* the query call handed to the store
IssuedQuery(q, n, whereNone, where) ==
    [op |-> "query", query_text |-> q, n_results |-> n, whereNone |-> whereNone,
     where |-> where]

\* the n_results query hands on, without the lower clamp
Clamp_NoFloor(n_results, count) == Min(n_results, count)

\* max(1, min(n_results, self.get_count()))
Clamp(n_results, count) == Max(1, Min(n_results, count))

\* query(query_text, n_results, where)
Query(query_text, n_results, whereNone, where, st) ==
    LET counted == GetCount(st)
    IN  IF ~counted.ok THEN [calls |-> <<>>, result |-> NoQueryResult(counted.error)]
        ELSE LET n == Clamp(n_results, counted.count)
             IN  [calls |-> <<IssuedQuery(query_text, n, whereNone, where)>>,
                  result |-> CollectionQuery(query_text, n, whereNone, where, st)]

Done == [ok |-> TRUE, error |-> ""]

Failed(e) == [ok |-> FALSE, error |-> e]

\* the items left when those of the given ids are removed
Without(items, ids) ==
    LET kept(item) == item.id \notin Range(ids) IN SelectSeq(items, kept)

\* delete_by_ids(ids): collection.delete(ids=ids), for a list of distinct ids
DeleteByIds(ids, st) ==
    IF ~st.exists THEN [store |-> st, result |-> Failed("NotFoundError")]
    ELSE [store |-> [st EXCEPT !.items = Without(@, ids)], result |-> Done]

\* delete_collection(collection_name): client.delete_collection(name=name_to_delete)
DeleteCollection(nameNone, collection_name, st) ==
    LET name_to_delete == IF nameNone THEN CollectionName ELSE collection_name
    IN  IF name_to_delete = CollectionName
        THEN IF st.exists
             THEN [store |-> [st EXCEPT !.exists = FALSE, !.items = <<>>],
                   result |-> Done]
             ELSE [store |-> st, result |-> Failed("NotFoundError")]
        ELSE IF name_to_delete \in st.others
             THEN [store |-> [st EXCEPT !.others = @ \ {name_to_delete}],
                   result |-> Done]
             ELSE [store |-> st, result |-> Failed("NotFoundError")]

(***************************************************************************)
(* The service used through its store operations: constructed on a persist *)
(* directory, then asked to add, query, count, delete and drop in any      *)
(* order.  svc keeps, for the observer only, whether a delete_collection   *)
(* call has returned since the construction ("DROPPED"); no method reads   *)
(* it.                                                                     *)
(***************************************************************************)
Constructed == svc # "UNATTACHED"

\* a read: the collection and the ids drawn are left alone
Observe(op, run) ==
    /\ lastOp' = op
    /\ calls' = run.calls
    /\ result' = run.result
    /\ UNCHANGED <<chunk_size, overlap, dirExists, store, svc, nextId>>

QueryCall(query_text, n_results, whereNone, where) ==
    /\ Idle
    /\ Constructed
    /\ \E run \in {Query(query_text, n_results, whereNone, where, store)} :
        Observe([op |-> "query", query_text |-> query_text, n_results |-> n_results,
                 whereNone |-> whereNone, where |-> where], run)

GetCountCall ==
    /\ Idle
    /\ Constructed
    /\ Observe([op |-> "get_count"], [calls |-> <<>>, result |-> GetCount(store)])

DeleteByIdsCall(ids) ==
    /\ Idle
    /\ Constructed
    /\ \E run \in {DeleteByIds(ids, store)} :
        /\ lastOp' = [op |-> "delete_by_ids", ids |-> ids]
        /\ calls' = <<>>
        /\ store' = run.store
        /\ result' = run.result
        /\ UNCHANGED <<chunk_size, overlap, dirExists, svc, nextId>>

DeleteCollectionCall(nameNone, collection_name) ==
    /\ Idle
    /\ Constructed
    /\ \E run \in {DeleteCollection(nameNone, collection_name, store)} :
        /\ lastOp' = [op |-> "delete_collection", nameNone |-> nameNone,
                      collection_name |-> collection_name]
        /\ calls' = <<>>
        /\ store' = run.store
        /\ result' = run.result
        /\ svc' = IF run.result.ok THEN "DROPPED" ELSE svc
        /\ UNCHANGED <<chunk_size, overlap, dirExists, nextId>>

\* the query texts: the blank one and one that embeds
QueryTexts == {<<>>, <<"a">>}

\* the where filters given: the metadata of an item
Wheres == {Metadata(0), Metadata(1)}

\* the id lists delete_by_ids is given: one id, or the first two drawn
DeleteLists ==
    {<<OldItem.id>>, <<IdList(1)[1]>>, Uuids(2, 0)}
        \cup {<<Uuids(MaxIds, 0)[j]>> : j \in 1..MaxIds}

OpsInit ==
    /\ chunk_size = MaxConfig
    /\ overlap = 0
    /\ dirExists \in BOOLEAN
    /\ store \in IF dirExists
                 THEN {[exists |-> TRUE, items |-> its, others |-> os] :
                            its \in {<<>>, <<OldItem>>}, os \in SUBSET {OtherName}}
                 ELSE {NoStore}
    /\ svc = "UNATTACHED"
    /\ nextId = 0
    /\ lastOp = [op |-> "none"]
    /\ calls = <<>>
    /\ result = NoResult

OpsNext ==
    \/ \E recreate \in BOOLEAN : Construct(recreate)
    \/ \E documents \in DocListsUpTo(MaxStore), mdNone \in BOOLEAN,
          idsNone \in BOOLEAN, failAt \in 0..MaxBatches :
            AddDocumentsAligned(documents, mdNone, idsNone, failAt)
    \/ \E query_text \in QueryTexts, n_results \in -1..(MaxStore + 1) :
            \/ QueryCall(query_text, n_results, TRUE, {})
            \/ \E where \in Wheres : QueryCall(query_text, n_results, FALSE, where)
    \/ GetCountCall
    \/ \E ids \in DeleteLists : DeleteByIdsCall(ids)
    \/ DeleteCollectionCall(TRUE, CollectionName)
    \/ \E collection_name \in {CollectionName, OtherName} :
            DeleteCollectionCall(FALSE, collection_name)
    \/ Forget

SpecOps == OpsInit /\ [][OpsNext]_vars

C2_ShortDocumentOneChunk ==
    (Chunked /\ 1 <= TokenLen /\ TokenLen <= chunk_size)
        => result.chunks = <<decode(encode(lastOp.file_json.document))>>

(***************************************************************************)
(* C3.  The shape of the window sequence.                                  *)
(***************************************************************************)
\* C3 as stated: window k (from 0) starts at token offset k * (C - O); every window but
\* the last has exactly C tokens, so consecutive windows share exactly O tokens; only
\* the final window may be shorter, with a length between 1 and C.
C3_WindowShape ==
    Chunked =>
        LET document == encode(lastOp.file_json.document)
            stride == chunk_size - overlap
            n == Len(Windows)
        IN  \A k \in 1..n :
                /\ Windows[k] = SubSeq(document, (k - 1) * stride + 1,
                                       (k - 1) * stride + Len(Windows[k]))
                /\ k < n => Len(Windows[k]) = chunk_size
                /\ k = n => (1 <= Len(Windows[k]) /\ Len(Windows[k]) <= chunk_size)

(***************************************************************************)
(* C4.  overlap >= chunk_size.                                             *)
(***************************************************************************)
\* C4 as stated: a configuration with overlap >= chunk_size is rejected when the service
\* is constructed: no service is attached under it and no chunking or add operation is
\* ever invoked under it.
C4_BadOverlapRejected ==
    overlap >= chunk_size
        => /\ svc # "ATTACHED"
           /\ lastOp.op \notin {"initialize_db", "add_search_results", "add_documents"}

(***************************************************************************)
(* The add_documents call the claims C5 to C9 are about.                   *)
(***************************************************************************)
IsAdd == lastOp.op = "add_documents"

NDocs == Len(lastOp.documents)

\* the lists the call works on, the defaults filled in
GivenMetadatas ==
    IF lastOp.mdNone THEN [j \in 1..NDocs |-> {}] ELSE lastOp.metadatas

GivenIds == IF lastOp.idsNone THEN Uuids(NDocs, nextId - NDocs) ELSE lastOp.ids

RECURSIVE Flatten(_)
Flatten(ss) == IF ss = <<>> THEN <<>> ELSE Head(ss) \o Flatten(Tail(ss))

IsPrefix(s, t) == Len(s) <= Len(t) /\ s = SubSeq(t, 1, Len(s))

CallDocuments == Flatten([b \in 1..Len(calls) |-> calls[b].documents])

CallMetadatas == Flatten([b \in 1..Len(calls) |-> calls[b].metadatas])

CallIds == Flatten([b \in 1..Len(calls) |-> calls[b].ids])

\* N documents, N metadatas, N ids, none of the documents null
EqualLengths ==
    /\ IsAdd
    /\ Len(GivenMetadatas) = NDocs
    /\ Len(GivenIds) = NDocs
    /\ \A j \in 1..NDocs : lastOp.documents[j] # None

(***************************************************************************)
(* C5.  Batching is size-exact and order-preserving.                       *)
(***************************************************************************)
\* C5: add_documents with N documents, N metadatas and N ids issues its insert calls in
\* batch order: the calls issued carry, concatenated, a prefix of each input list in
\* its order, every call before the ceil(N/B)-th carries exactly B items, and a call
\* that returns has issued exactly ceil(N/B) calls whose lengths sum to N and whose
\* concatenation is the three input lists.
C5_Batching ==
    EqualLengths =>
        /\ Len(calls) <= CeilDiv(NDocs, BATCH_SIZE)
        /\ \A b \in 1..Len(calls) :
            /\ b < CeilDiv(NDocs, BATCH_SIZE) => Len(calls[b].documents) = BATCH_SIZE
            /\ Len(calls[b].documents) >= 1
            /\ Len(calls[b].documents) <= BATCH_SIZE
            /\ b < Len(calls) => calls[b].ok
        /\ IsPrefix(CallDocuments, lastOp.documents)
        /\ IsPrefix(CallMetadatas, GivenMetadatas)
        /\ IsPrefix(CallIds, GivenIds)
        /\ result.ok =>
            /\ Len(calls) = CeilDiv(NDocs, BATCH_SIZE)
            /\ Len(CallDocuments) = NDocs
            /\ CallDocuments = lastOp.documents
            /\ CallMetadatas = GivenMetadatas
            /\ CallIds = GivenIds
            /\ result.ids = GivenIds

\* a call with equal lengths returned after three insert calls, the last one short
C5_Witness ==
    /\ EqualLengths
    /\ result.ok
    /\ Len(calls) = 3
    /\ Len(calls[3].documents) < BATCH_SIZE

(***************************************************************************)
(* C6.  The three lists of an insert call.                                 *)
(***************************************************************************)
\* C6 as stated: every insert call add_documents issues, whatever the lengths of the
\* metadatas and ids it was given, carries documents, metadatas and ids of equal length,
\* position j of each belonging to the same input item.
C6_CallListsAligned ==
    IsAdd =>
        \A b \in 1..Len(calls) :
            /\ Len(calls[b].metadatas) = Len(calls[b].documents)
            /\ Len(calls[b].ids) = Len(calls[b].documents)
            /\ \A j \in 1..Len(calls[b].documents) :
                LET i == (b - 1) * BATCH_SIZE + j
                IN  /\ calls[b].documents[j] = lastOp.documents[i]
                    /\ calls[b].metadatas[j] = GivenMetadatas[i]
                    /\ calls[b].ids[j] = GivenIds[i]

(***************************************************************************)
(* C7.  Null documents.                                                    *)
(***************************************************************************)
\* C7: in any sequence of add_documents, add_search_results and initialize_db calls no
\* insert call carries a null document and none is stored; add_documents with a null in
\* its documents list raises before the first insert call and leaves the collection as
\* it was.
C7_NoNullDocument ==
    [][/\ \A b \in 1..Len(calls') :
            \A j \in 1..Len(calls'[b].documents) : calls'[b].documents[j] # None
       /\ \A j \in 1..Len(store'.items) : store'.items[j].document # None
       /\ (lastOp'.op = "add_documents"
             /\ \E j \in 1..Len(lastOp'.documents) : lastOp'.documents[j] = None)
            => (~result'.ok /\ calls' = <<>> /\ store' = store)]_vars

\* add_documents was called with a null among several documents on a collection that
\* holds something, and raised
C7_Witness ==
    /\ IsAdd
    /\ NDocs >= 2
    /\ \E j \in 1..NDocs : lastOp.documents[j] = None
    /\ ~result.ok
    /\ calls = <<>>
    /\ store.items # <<>>

(***************************************************************************)
(* C8.  Empty document text.                                               *)
(***************************************************************************)
\* C8 as stated: add_documents with a documents list that holds an empty string (and
\* metadatas and ids of the same length) raises before any insert call is issued to the
\* backing store.
C8_EmptyDocumentRejected ==
    (EqualLengths /\ \E j \in 1..NDocs : lastOp.documents[j] = <<>>)
        => (~result.ok /\ calls = <<>>)

(***************************************************************************)
(* C9.  A failing insert call in a multi-batch add.                        *)
(***************************************************************************)
\* C9: when the k-th insert call of an add_documents call fails in the backing store,
\* the call raises and returns no ids, the calls 1..k-1 succeeded and their items are in
\* the collection with everything it held before, and no insert call follows the k-th.
C9_PartialSuccess ==
    [][(lastOp'.op = "add_documents")
        => \A k \in 1..Len(calls') :
            ~calls'[k].ok =>
                /\ k = Len(calls')
                /\ ~result'.ok
                /\ result'.ids = <<>>
                /\ IsPrefix(store.items, store'.items)
                /\ \A b \in 1..(k - 1) :
                    /\ calls'[b].ok
                    /\ \A j \in 1..Len(calls'[b].ids) :
                        \/ calls'[b].ids[j] \in StoredIds(store)
                        \/ Item(calls'[b].ids[j], calls'[b].documents[j],
                                calls'[b].metadatas[j]) \in Range(store'.items)
                /\ Len(store'.items) - Len(store.items)
                    = Cardinality({calls'[b].ids[j] : b \in 1..(k - 1), j \in 1..BATCH_SIZE}
                                    \ StoredIds(store))]_vars

\* the second of three insert calls failed: the first batch is stored, the third not issued
C9_Witness ==
    /\ IsAdd
    /\ Len(calls) = 2
    /\ ~calls[2].ok
    /\ CeilDiv(NDocs, BATCH_SIZE) = 3
    /\ EqualLengths
    /\ \A j \in 1..BATCH_SIZE : calls[1].ids[j] \in StoredIds(store)
    /\ \A j \in 1..Len(calls[2].ids) : calls[2].ids[j] \notin StoredIds(store)
    /\ ~result.ok

(***************************************************************************)
(* C10.  initialize_db fails fast.                                         *)
(***************************************************************************)
\* C10: when chunking fails for any one record read by initialize_db, at any position,
\* the call raises, issues no insert call for any record, and leaves the collection as
\* it was.
C10_FailFast ==
    [][(/\ lastOp'.op = "initialize_db"
        /\ lastOp'.readable
        /\ \E i \in 1..Len(lastOp'.data) :
            ~GetChunksAndMetadatas(lastOp'.data[i], chunk_size, overlap).ok)
        => (~result'.ok /\ calls' = <<>> /\ store' = store /\ nextId' = nextId)]_vars

\* initialize_db read a record that chunks into something and then one that fails
C10_Witness ==
    /\ lastOp.op = "initialize_db"
    /\ overlap < chunk_size
    /\ Len(lastOp.data) = 2
    /\ GetChunksAndMetadatas(lastOp.data[1], chunk_size, overlap).ok
    /\ GetChunksAndMetadatas(lastOp.data[1], chunk_size, overlap).chunks # <<>>
    /\ ~GetChunksAndMetadatas(lastOp.data[2], chunk_size, overlap).ok
    /\ ~result.ok
    /\ calls = <<>>

(***************************************************************************)
(* C11.  The n_results handed to the store.                                *)
(***************************************************************************)
IsQuery == lastOp.op = "query"

\* the chunks the collection holds; a query leaves them as they were at the call
Count == Len(store.items)

\* C11: for every query call with any integer n_results (zero, negative and above the
\* chunk count included) on a collection that exists, one query reaches the store and
\* the n_results it carries is max(1, min(n_results, count)): never below 1, never above
\* the count of a non-empty collection; and an unfiltered query with a text that embeds,
\* on a collection of c >= 1 chunks with n_results >= c, returns exactly c results.
C11_Clamped ==
    (IsQuery /\ store.exists)
        => /\ Len(calls) = 1
           /\ LET passed == calls[1].n_results
                  lower == IF lastOp.n_results < Count THEN lastOp.n_results ELSE Count
              IN  /\ passed = (IF lower < 1 THEN 1 ELSE lower)
                  /\ passed >= 1
                  /\ Count >= 1 => passed <= Count
           /\ (Count >= 1 /\ lastOp.whereNone /\ lastOp.n_results >= Count
                    /\ lastOp.query_text # <<>>)
                => (result.ok /\ Len(result.results) = Count)

\* a query asking for more than the collection's MaxStore chunks got them all
C11_Witness ==
    /\ IsQuery
    /\ Count = MaxStore
    /\ lastOp.n_results > Count
    /\ lastOp.whereNone
    /\ calls[1].n_results = Count
    /\ Len(result.results) = Count

(***************************************************************************)
(* C12.  What changes the chunk count.                                     *)
(***************************************************************************)
\* C12: over any sequence of operations on one service instance (every step but the
\* construction of a new instance), the collection's chunk count increases only in an
\* add_documents step and decreases only in a delete_by_ids or delete_collection step;
\* query and get_count leave the stored chunks and the count unchanged.
C12_CountFrame ==
    [][lastOp'.op # "__init__"
        => /\ Len(store'.items) > Len(store.items) => lastOp'.op = "add_documents"
           /\ Len(store'.items) < Len(store.items)
                => lastOp'.op \in {"delete_by_ids", "delete_collection"}
           /\ lastOp'.op \in {"query", "get_count"} => store' = store]_vars

\* delete_by_ids of the first two ids drawn has removed what the collection held of
\* them and left the chunk of the earlier run
C12_Witness ==
    /\ lastOp.op = "delete_by_ids"
    /\ Len(lastOp.ids) = 2
    /\ result.ok
    /\ nextId >= 1
    /\ store.items = <<OldItem>>

(***************************************************************************)
(* C13.  After delete_collection.                                          *)
(***************************************************************************)
\* C13 as stated: once a delete_collection call (with no name, or with any name) has
\* returned, every add_documents, query, get_count and delete_by_ids call on the same
\* instance fails, until the service is constructed anew: no operation is served in
\* DROPPED.
C13_DroppedRefuses ==
    (svc = "DROPPED"
        /\ lastOp.op \in {"add_documents", "query", "get_count", "delete_by_ids"})
        => ~result.ok

(***************************************************************************)
(* C14.  Dropping what is dropped, deleting what is absent.                *)
(***************************************************************************)
\* C14 as stated: delete_collection on the instance's collection does not raise, also
\* when the collection was already dropped; delete_by_ids with ids the collection does
\* not hold does not raise and leaves its contents as they were.
C14_Idempotent ==
    [][/\ (lastOp'.op = "delete_collection"
            /\ (lastOp'.nameNone \/ lastOp'.collection_name = CollectionName))
            => result'.ok
       /\ (lastOp'.op = "delete_by_ids" /\ store.exists
            /\ Range(lastOp'.ids) \cap StoredIds(store) = {})
            => (result'.ok /\ store' = store)]_vars

(***************************************************************************)
(* C15.  recreate_collection.                                              *)
(***************************************************************************)
\* C15: constructing the service with recreate_collection=True on a persist directory
\* that exists leaves an attached collection of zero chunks, whatever the directory held,
\* and the construction itself issues no insert; and an insert call is only ever issued
\* by an instance whose construction has completed, so none precedes the wipe.
C15_RecreateWipes ==
    [][/\ (lastOp'.op = "__init__" /\ lastOp'.recreate /\ dirExists)
            => /\ store' = [exists |-> TRUE, items |-> <<>>, others |-> {}]
               /\ svc' = "ATTACHED"
               /\ calls' = <<>>
       /\ (calls' # <<>> /\ calls' # calls) => svc = "ATTACHED"
       /\ svc = "UNATTACHED" => calls = <<>>]_vars

\* a second instance constructed with recreate_collection=True after an earlier one had
\* been asked to add chunks: the collection is empty
C15_Witness ==
    /\ lastOp.op = "__init__"
    /\ lastOp.recreate
    /\ nextId >= 1
    /\ store.items = <<>>

(***************************************************************************)
(* C16.  Search results without content.                                   *)
(***************************************************************************)
\* the (chunk, metadata) pairs the claim expects of a list of search results: the
\* chunks of each item that has content, in input order, each with that item's title
\* (the empty string for none) and url
RECURSIVE ExpectedPairs(_, _, _)
ExpectedPairs(items, C, O) ==
    IF items = <<>> THEN <<>>
    ELSE LET sr == Head(items)
             md == {<<"title", IF sr.title = NoneStr THEN "" ELSE sr.title>>,
                    <<"url", sr.url>>}
             own == IF sr.content = None THEN <<>>
                    ELSE GetChunksAndMetadatas(FileJson(TRUE, sr.content, TRUE, md),
                                               C, O).chunks
         IN  [k \in 1..Len(own) |-> [document |-> own[k], metadata |-> md]]
                \o ExpectedPairs(Tail(items), C, O)

\* the (document, metadata) pairs of a sequence of insert calls or of stored items
Pairs(docs, mds) ==
    [k \in 1..Len(docs) |-> [document |-> docs[k], metadata |-> mds[k]]]

\* C16: for every list of search results with at least one item of non-null content,
\* add_search_results does not raise for the null-content items (no AssertionError, no
\* TypeError of the tokenizer); what it submits is a prefix of the chunks of the items
\* with content, in input order, each with {title, url} of its own item; under a valid
\* overlap and a store that accepts every insert it returns; and when it returns, the
\* collection has grown by exactly those chunks.
C16_NullContentSkipped ==
    [][(lastOp'.op = "add_search_results"
            /\ \E j \in 1..Len(lastOp'.search_results) :
                    lastOp'.search_results[j].content # None)
        => LET expected == ExpectedPairs(lastOp'.search_results, chunk_size, overlap)
               docs == Flatten([b \in 1..Len(calls') |-> calls'[b].documents])
               mds == Flatten([b \in 1..Len(calls') |-> calls'[b].metadatas])
               grown == SubSeq(store'.items, Len(store.items) + 1, Len(store'.items))
           IN  /\ result'.error \notin {"AssertionError", "TypeError"}
               /\ Len(docs) = Len(mds)
               /\ IsPrefix(Pairs(docs, mds), expected)
               /\ (overlap < chunk_size /\ \A b \in 1..Len(calls') : calls'[b].ok)
                    => result'.ok
               /\ result'.ok
                    => /\ Pairs(docs, mds) = expected
                       /\ SubSeq(store'.items, 1, Len(store.items)) = store.items
                       /\ [k \in 1..Len(grown) |->
                            [document |-> grown[k].document,
                             metadata |-> grown[k].metadata]] = expected]_vars

\* a search with an item of content and an item without has been added: the two
\* windows of the one content are the collection
C16_Witness ==
    /\ lastOp.op = "add_search_results"
    /\ Len(lastOp.search_results) = 2
    /\ \E j \in 1..2 : lastOp.search_results[j].content = None
    /\ result.ok
    /\ Len(result.ids) = 2
    /\ Len(store.items) = 2

(***************************************************************************)
(* C17.  The windows cover the document.                                   *)
(***************************************************************************)
\* C17: for a token sequence of length L >= 0 and 0 <= O < C, the windows are non-empty
\* contiguous slices of the sequence, free of the fill value, taken at increasing
\* offsets (window k at (k - 1) * (C - O)); every token position 1..L lies in a window;
\* the chunks returned are the windows decoded, in that order; and the empty sequence
\* yields zero chunks.
C17_WindowsCover ==
    Chunked
        => LET document == encode(lastOp.file_json.document)
               stride == chunk_size - overlap
               start(k) == (k - 1) * stride
           IN  /\ Len(result.chunks) = Len(Windows)
               /\ \A k \in 1..Len(Windows) :
                    /\ Len(Windows[k]) >= 1
                    /\ \A j \in 1..Len(Windows[k]) : Windows[k][j] # NoneTok
                    /\ start(k) + Len(Windows[k]) <= TokenLen
                    /\ \A j \in 1..Len(Windows[k]) :
                            Windows[k][j] = document[start(k) + j]
                    /\ result.chunks[k]
                            = decode(SubSeq(document, start(k) + 1,
                                            start(k) + Len(Windows[k])))
               /\ \A p \in 1..TokenLen :
                    \E k \in 1..Len(Windows) :
                        start(k) < p /\ p <= start(k) + Len(Windows[k])
               /\ TokenLen = 0 => result.chunks = <<>>

\* a document longer than the window, chunked with an overlap into three windows or more
C17_Witness ==
    /\ Chunked
    /\ overlap >= 1
    /\ TokenLen > chunk_size
    /\ Len(result.chunks) >= 3


====
